---- MODULE Spec2Model ----
(***************************************************************************)
(* photo_watermark.py: a command-line pipeline that stamps a date onto a   *)
(* photo.  main validates the style arguments, process_image resolves the  *)
(* watermark text (EXIF capture time, else file modification time, else a  *)
(* constant), add_watermark places and draws the text and saves the result *)
(* into <dir>/<name>_watermark/<file>.                                     *)
(*                                                                         *)
(* Strings are sequences of one-character strings, so that parsing and     *)
(* formatting are computed character by character.  Paths are sequences of *)
(* tokens in which "/" and "." are tokens of their own.                    *)
(***************************************************************************)
EXTENDS Integers, Sequences, FiniteSets, TLC

\* ------------------------------------------------------------------------
\* Characters and numbers
\* ------------------------------------------------------------------------

DigitChars == <<"0", "1", "2", "3", "4", "5", "6", "7", "8", "9">>

IsDigit(c) == \E i \in 1..10 : DigitChars[i] = c

DigitVal(c) == (CHOOSE i \in 1..10 : DigitChars[i] = c) - 1

IsSpace(c) == c \in {" ", "\t", "\n"}

RECURSIVE Pow10(_)
Pow10(n) == IF n = 0 THEN 1 ELSE 10 * Pow10(n - 1)

\* n written in decimal, zero-padded to w characters (n < 10^w).
RECURSIVE NumStr(_, _)
NumStr(n, w) ==
    IF w = 0 THEN <<>>
    ELSE <<DigitChars[((n \div Pow10(w - 1)) % 10) + 1]>> \o NumStr(n, w - 1)

\* The number a run of digits denotes; a leading blank (the " 5" form of a
\* day) counts as nothing.
RECURSIVE NumVal(_)
NumVal(cs) ==
    IF cs = <<>> THEN 0
    ELSE LET last == cs[Len(cs)]
             init == SubSeq(cs, 1, Len(cs) - 1)
         IN  IF IsDigit(last) THEN 10 * NumVal(init) + DigitVal(last)
             ELSE NumVal(init)

\* Python's None, as a value no string of characters can equal.
NoneVal == <<"<None>">>

\* An exception leaving the function, as a value no string can equal.
RaisedVal == <<"<raised>">>

\* ------------------------------------------------------------------------
\* datetime: calendar, strptime, strftime, fromtimestamp
\* ------------------------------------------------------------------------

MINYEAR == 1
MAXYEAR == 9999

IsLeap(y) == (y % 4 = 0) /\ ((y % 100 # 0) \/ (y % 400 = 0))

DaysInMonth(y, m) ==
    IF m = 2 THEN (IF IsLeap(y) THEN 29 ELSE 28)
    ELSE IF m \in {4, 6, 9, 11} THEN 30 ELSE 31

\* The two formats extract_datetime tries, in order, as directive lists.
formats ==
    << <<"%Y", ":", "%m", ":", "%d", " ", "%H", ":", "%M", ":", "%S">>,
       <<"%Y", "/", "%m", "/", "%d", " ", "%H", ":", "%M", ":", "%S">> >>

IsDirective(f) == f \in {"%Y", "%m", "%d", "%H", "%M", "%S"}

\* Whether the characters cs are one alternative of the directive's pattern:
\* %Y \d\d\d\d, %m 1[0-2]|0[1-9]|[1-9], %d 3[01]|[12]\d|0[1-9]|[1-9]| [1-9],
\* %H 2[0-3]|[0-1]\d|\d, %M [0-5]\d|\d, %S 6[0-1]|[0-5]\d|\d.
FieldOK(f, cs) ==
    LET n  == Len(cs)
        c1 == cs[1]
        c2 == cs[2]
        nz(c) == IsDigit(c) /\ c # "0"
    IN  CASE f = "%Y" -> n = 4 /\ \A i \in 1..4 : IsDigit(cs[i])
          [] f = "%m" -> \/ n = 2 /\ c1 = "1" /\ c2 \in {"0", "1", "2"}
                         \/ n = 2 /\ c1 = "0" /\ nz(c2)
                         \/ n = 1 /\ nz(c1)
          [] f = "%d" -> \/ n = 2 /\ c1 = "3" /\ c2 \in {"0", "1"}
                         \/ n = 2 /\ c1 \in {"1", "2"} /\ IsDigit(c2)
                         \/ n = 2 /\ c1 = "0" /\ nz(c2)
                         \/ n = 1 /\ nz(c1)
                         \/ n = 2 /\ c1 = " " /\ nz(c2)
          [] f = "%H" -> \/ n = 2 /\ c1 = "2" /\ c2 \in {"0", "1", "2", "3"}
                         \/ n = 2 /\ c1 \in {"0", "1"} /\ IsDigit(c2)
                         \/ n = 1 /\ IsDigit(c1)
          [] f = "%M" -> \/ n = 2 /\ c1 \in {"0", "1", "2", "3", "4", "5"} /\ IsDigit(c2)
                         \/ n = 1 /\ IsDigit(c1)
          [] f = "%S" -> \/ n = 2 /\ c1 = "6" /\ c2 \in {"0", "1"}
                         \/ n = 2 /\ c1 \in {"0", "1", "2", "3", "4", "5"} /\ IsDigit(c2)
                         \/ n = 1 /\ IsDigit(c1)

\* The widths a directive's alternatives have.
Widths(f) == IF f = "%Y" THEN {4} ELSE {1, 2}

\* The matches of format fmt from directive i on against s from position pos
\* on, each one the fields' values in order.  The blank of the format stands
\* for one or more white-space characters, and the whole of s must be
\* consumed.  The alternatives of a directive are tried in the pattern's order
\* and the first that lets the rest match is taken; as a digit follows in the
\* longer alternative where a separator or the end follows in the shorter
\* one, at most one of them does, and the set has at most one element.
RECURSIVE Match(_, _, _, _)
Match(s, pos, fmt, i) ==
    IF i > Len(fmt) THEN (IF pos = Len(s) + 1 THEN {<<>>} ELSE {})
    ELSE IF IsDirective(fmt[i])
         THEN UNION {{<<NumVal(SubSeq(s, pos, pos + n - 1))>> \o r :
                         r \in Match(s, pos + n, fmt, i + 1)} :
                     n \in {n \in Widths(fmt[i]) :
                               /\ pos + n - 1 <= Len(s)
                               /\ FieldOK(fmt[i], SubSeq(s, pos, pos + n - 1))}}
    ELSE IF fmt[i] = " "
         THEN IF pos <= Len(s) /\ IsSpace(s[pos])
              THEN Match(s, pos + 1, fmt, i) \cup Match(s, pos + 1, fmt, i + 1)
              ELSE {}
    ELSE IF pos <= Len(s) /\ s[pos] = fmt[i]
         THEN Match(s, pos + 1, fmt, i + 1)
         ELSE {}

\* datetime.strptime(s, fmt): the parsed datetime, or ok = FALSE where
\* Python raises ValueError (no match, unconverted data, year 0, a day the
\* month does not have, second 60 or 61).
Strptime(s, fmt) ==
    LET found == {r \in Match(s, 1, fmt, 1) :
                     /\ r[1] >= MINYEAR
                     /\ r[3] <= DaysInMonth(r[1], r[2])
                     /\ r[6] <= 59}
    IN  IF found = {}
        THEN [ok |-> FALSE, year |-> 0, month |-> 0, day |-> 0]
        ELSE LET r == CHOOSE r \in found : TRUE
             IN  [ok |-> TRUE, year |-> r[1], month |-> r[2], day |-> r[3]]

\* dt.strftime('%Y-%m-%d'), for the four-digit years (1000..9999) of the model.
StrftimeYmd(dt) ==
    NumStr(dt.year, 4) \o <<"-">> \o NumStr(dt.month, 2) \o <<"-">> \o NumStr(dt.day, 2)

\* datetime.fromtimestamp(mtime), with the modification time counted in whole
\* days since 1970-01-01 (the time of day does not reach the output): the
\* civil date of that day, or ok = FALSE where Python raises because the
\* year is outside MINYEAR..MAXYEAR.
FromTimestamp(days) ==
    LET z   == days + 719468
        era == z \div 146097
        doe == z - era * 146097
        yoe == (doe - doe \div 1460 + doe \div 36524 - doe \div 146096) \div 365
        doy == doe - (365 * yoe + yoe \div 4 - yoe \div 100)
        mp  == (5 * doy + 2) \div 153
        d   == doy - (153 * mp + 2) \div 5 + 1
        m   == IF mp < 10 THEN mp + 3 ELSE mp - 9
        y   == yoe + era * 400 + (IF m <= 2 THEN 1 ELSE 0)
    IN  IF y >= MINYEAR /\ y <= MAXYEAR
        THEN [ok |-> TRUE, year |-> y, month |-> m, day |-> d]
        ELSE [ok |-> FALSE, year |-> 0, month |-> 0, day |-> 0]

\* ------------------------------------------------------------------------
\* os.path
\* ------------------------------------------------------------------------

\* The index of the last token of p equal to t, or 0.
LastIndex(p, t) ==
    LET hits == {i \in 1..Len(p) : p[i] = t}
    IN  IF hits = {} THEN 0 ELSE CHOOSE i \in hits : \A j \in hits : j <= i

RECURSIVE StripSlashes(_)
StripSlashes(p) ==
    IF p # <<>> /\ p[Len(p)] = "/" THEN StripSlashes(SubSeq(p, 1, Len(p) - 1)) ELSE p

\* os.path.dirname: up to the last "/", trailing slashes dropped unless the
\* head is made of slashes only.
Dirname(p) ==
    LET head == SubSeq(p, 1, LastIndex(p, "/"))
    IN  IF \A i \in 1..Len(head) : head[i] = "/" THEN head ELSE StripSlashes(head)

\* os.path.basename: what follows the last "/".
Basename(p) == SubSeq(p, LastIndex(p, "/") + 1, Len(p))

\* os.path.splitext: split at the last "." unless only dots precede it.
Splitext(name) ==
    LET k == LastIndex(name, ".")
    IN  IF k > 0 /\ \E i \in 1..(k - 1) : name[i] # "."
        THEN <<SubSeq(name, 1, k - 1), SubSeq(name, k, Len(name))>>
        ELSE <<name, <<>>>>

\* os.path.join of two parts.
Join(a, b) ==
    IF b # <<>> /\ b[1] = "/" THEN b
    ELSE IF a = <<>> \/ a[Len(a)] = "/" THEN a \o b
    ELSE a \o <<"/">> \o b

\* process_image's output path: <dir>/<name>_watermark/<file>.
WatermarkDir(image_path) ==
    Join(Dirname(image_path),
         Splitext(Basename(image_path))[1] \o <<"_watermark">>)

OutputPath(image_path) == Join(WatermarkDir(image_path), Basename(image_path))

\* The file name extensions Image.save can pick an encoder for.
SaveExtensions ==
    {<<".", "jpg">>, <<".", "jpeg">>, <<".", "png">>, <<".", "tiff">>,
     <<".", "tif">>, <<".", "bmp">>, <<".", "gif">>}

SaveSupported(path) == Splitext(Basename(path))[2] \in SaveExtensions

\* ------------------------------------------------------------------------
\* EXIF values and extract_datetime
\* ------------------------------------------------------------------------

\* An EXIF value is [t, v]: its Python type and its characters (for a
\* number, its digits).  Python's truth value of it.
Truthy(val) ==
    IF val.t = "int" THEN val.v # <<"0">> ELSE val.v # <<>>

\* Mutant of datetime_keys: DateTime is looked up before DateTimeOriginal.
datetime_keys_reordered == <<"DateTime", "DateTimeOriginal", "DateTimeDigitized">>

\* The field names extract_datetime looks up, in order.
datetime_keys == <<"DateTimeOriginal", "DateTime", "DateTimeDigitized">>

\* The for loop of extract_datetime: the value of the first key that is
\* present and true, with found = FALSE when the loop ends without a break.
RECURSIVE LookupFrom(_, _, _)
LookupFrom(tags, keys, i) ==
    IF i > Len(keys) THEN [found |-> FALSE, val |-> [t |-> "str", v |-> <<>>]]
    ELSE IF keys[i] \in DOMAIN tags /\ Truthy(tags[keys[i]])
         THEN [found |-> TRUE, val |-> tags[keys[i]]]
         ELSE LookupFrom(tags, keys, i + 1)

\* Mutant of Lookup: a value that parses under neither format is passed over
\* and the next key is tried.
RECURSIVE LookupParseableFrom(_, _, _)
LookupParseableFrom(tags, keys, i) ==
    IF i > Len(keys) THEN [found |-> FALSE, val |-> [t |-> "str", v |-> <<>>]]
    ELSE IF /\ keys[i] \in DOMAIN tags
            /\ Truthy(tags[keys[i]])
            /\ tags[keys[i]].t = "str"
            /\ \E f \in 1..Len(formats) : Strptime(tags[keys[i]].v, formats[f]).ok
         THEN [found |-> TRUE, val |-> tags[keys[i]]]
         ELSE LookupParseableFrom(tags, keys, i + 1)

Lookup_first_parseable(tags) == LookupParseableFrom(tags, datetime_keys, 1)

Lookup(tags) == LookupFrom(tags, datetime_keys, 1)

\* The loop over formats: the first format that parses wins; ValueError
\* moves on to the next format; nothing parsed gives None.
RECURSIVE ParseFrom(_, _)
ParseFrom(s, i) ==
    IF i > Len(formats) THEN NoneVal
    ELSE LET dt == Strptime(s, formats[i])
         IN  IF dt.ok THEN StrftimeYmd(dt) ELSE ParseFrom(s, i + 1)

\* Mutant of ParseDatetimeStr: only ValueError is handled, so the TypeError
\* of a value that is no str leaves extract_datetime.
ParseDatetimeStr_uncaught(val) ==
    IF val.t # "str" THEN RaisedVal ELSE ParseFrom(val.v, 1)

\* datetime_str to date text: strptime of a value that is no str raises
\* TypeError, which the outer handler reports, and None is returned.
ParseDatetimeStr(val) ==
    IF val.t # "str" THEN NoneVal ELSE ParseFrom(val.v, 1)

\* extract_datetime(exif_data); exif_data is [none, tags].
extract_datetime(exif_data) ==
    IF exif_data.none \/ DOMAIN exif_data.tags = {} THEN NoneVal
    ELSE LET hit == Lookup(exif_data.tags)
         IN  IF hit.found THEN ParseDatetimeStr(hit.val) ELSE NoneVal

NoExif == [none |-> TRUE, tags |-> <<>>]

\* get_exif_data(image_path) on the file f: None when the file is missing,
\* cannot be opened as an image or carries no EXIF block, else its tags.
get_exif_data(f) ==
    IF ~f.exists THEN NoExif
    ELSE IF f.kind # "image" THEN NoExif
    ELSE IF f.exif.none THEN NoExif
    ELSE [none |-> FALSE, tags |-> f.exif.tags]

\* Mutant of UnknownDate: another spelling of the constant.
UnknownDate_lowercase == <<"u", "n", "k", "n", "o", "w", "n">>

UnknownDate == <<"U", "n", "k", "n", "o", "w", "n", " ", "D", "a", "t", "e">>

\* ------------------------------------------------------------------------
\* Geometry and argument validation
\* ------------------------------------------------------------------------

margin == 10

\* Mutant of Position: the final else places the text at the top left.
Position_default_top_left(position, width, height, text_width, text_height) ==
    IF position = "top-right" THEN <<width - text_width - margin, margin>>
    ELSE IF position = "bottom-left" THEN <<margin, height - text_height - margin>>
    ELSE IF position = "center"
         THEN <<(width - text_width) \div 2, (height - text_height) \div 2>>
    ELSE IF position = "bottom-right"
         THEN <<width - text_width - margin, height - text_height - margin>>
    ELSE <<margin, margin>>

\* The position chain of add_watermark.
Position(position, width, height, text_width, text_height) ==
    IF position = "top-left" THEN <<margin, margin>>
    ELSE IF position = "top-right" THEN <<width - text_width - margin, margin>>
    ELSE IF position = "bottom-left" THEN <<margin, height - text_height - margin>>
    ELSE IF position = "center"
         THEN <<(width - text_width) \div 2, (height - text_height) \div 2>>
    ELSE <<width - text_width - margin, height - text_height - margin>>

FontSizeOK(font_size) == ~(font_size <= 0)

FontColorOK(font_color) == \A i \in 1..Len(font_color) : 0 <= font_color[i] /\ font_color[i] <= 255

\* Mutant of OpacityOK: the upper limit is not checked.
OpacityOK_no_upper(opacity) == 0 <= opacity

OpacityOK(opacity) == 0 <= opacity /\ opacity <= 255

\* ------------------------------------------------------------------------
\* State
\* ------------------------------------------------------------------------

VARIABLES
    entry,          \* the function the caller entered: "main",
                    \* "create_watermark_text" or "add_watermark"
    args,           \* image_path, font_size, font_color, position, opacity
    file,           \* the input file: exists, kind, exif, mtime, size
    env,            \* writable: directories and files can be created;
                    \* render_ok: measuring and drawing the text succeeds
    dirs,           \* the directories that exist besides the source's own
    files,          \* the output files that exist
    old_dirs,       \* dirs as it was when the program was first started
    run,            \* the number of the current run of the program
    pc,             \* the statement the run is at
    exif_data,      \* create_watermark_text's exif_data
    date_text,      \* create_watermark_text's date_text
    mtime_status,   \* how the modification time tier went
    watermark_text, \* the text create_watermark_text returned
    output_path,    \* process_image's output_path
    xy,             \* add_watermark's (x, y), with the measured text size
    success,        \* what process_image returned
    exit_status,    \* the status the process ended with
    io,             \* the file system and image operations of this run, in order
    results         \* what process_image returned in each finished run

vars ==
    <<entry, args, file, env, dirs, files, old_dirs, run, pc, exif_data, date_text,
      mtime_status, watermark_text, output_path, xy, success, exit_status,
      io, results>>

\* ------------------------------------------------------------------------
\* Bounds and input domains
\* ------------------------------------------------------------------------

\* How many times the program is run on the same input.
MaxRuns == 2

Str(cs) == [t |-> "str", v |-> cs]

Absent == [t |-> "absent", v |-> <<>>]

TimeOfDay == <<"1", "0", ":", "2", "0", ":", "3", "0">>

\* "YYYY<sep>MM<sep>DD 10:20:30"
Stamp(y, m, d, sep) ==
    Str(NumStr(y, 4) \o <<sep>> \o NumStr(m, 2) \o <<sep>> \o NumStr(d, 2)
        \o <<" ">> \o TimeOfDay)

\* "2024:3:7 1:2:3": fields without their leading zeros.
ShortStamp == Str(<<"2", "0", "2", "4", ":", "3", ":", "7", " ", "1", ":", "2", ":", "3">>)

\* "2022:11:30 10:20:30 ": a trailing blank.
TrailingStamp == Str(Stamp(2022, 11, 30, ":").v \o <<" ">>)

\* "2021:06/15 10:20:30": mixed separators.
MixedStamp ==
    Str(<<"2", "0", "2", "1", ":", "0", "6", "/", "1", "5", " ">> \o TimeOfDay)

OriginalValues ==
    {Absent, Stamp(2024, 1, 5, ":"), Stamp(2020, 2, 29, "/"), ShortStamp,
     Stamp(2023, 2, 29, ":"), Stamp(0, 0, 0, ":"), TrailingStamp, MixedStamp,
     Str(<<>>), [t |-> "int", v |-> <<"4", "2">>], [t |-> "int", v |-> <<"0">>],
     [t |-> "bytes", v |-> Stamp(2024, 1, 5, ":").v]}

DateTimeValues ==
    {Absent, Stamp(2019, 12, 31, ":"), Stamp(2018, 7, 4, "/"),
     Stamp(2019, 13, 1, ":"), Str(<<>>)}

DigitizedValues == {Absent, Stamp(2017, 10, 9, ":"), Stamp(2017, 4, 31, ":")}

MakeValues == {Absent, Str(<<"A", "c", "m", "e">>)}

\* The tag dictionary holding the values given, absent ones left out.
Tags(o, d, g, mk) ==
    LET all == [k \in {"DateTimeOriginal", "DateTime", "DateTimeDigitized", "Make"} |->
                  CASE k = "DateTimeOriginal" -> o
                    [] k = "DateTime" -> d
                    [] k = "DateTimeDigitized" -> g
                    [] k = "Make" -> mk]
    IN  [k \in {k \in DOMAIN all : all[k].t # "absent"} |-> all[k]]

\* Every EXIF state of a file: no block, or a block with any of the values.
AllExifs ==
    {NoExif} \cup
    {[none |-> FALSE, tags |-> Tags(o, d, g, mk)] :
        o \in OriginalValues, d \in DateTimeValues, g \in DigitizedValues,
        mk \in MakeValues}

\* The EXIF states the whole-program runs use.
MainExifs ==
    {NoExif,
     [none |-> FALSE, tags |-> Tags(Stamp(2024, 1, 5, ":"), Absent, Absent, Absent)],
     [none |-> FALSE,
      tags |-> Tags(Stamp(2023, 2, 29, ":"), Stamp(2019, 12, 31, ":"), Absent, Absent)]}

\* Modification times in days since 1970-01-01: 2024-03-05, 2000-02-29,
\* 1969-12-31, 9999-12-31 and the day after it.
Mtimes == {19787, 11016, -1, 2932896, 2932897}

MainMtimes == {19787, 11016, 2932897}

ImageSizes == {<<1000, 800>>, <<641, 481>>}

TextSizes == {<<100, 30>>, <<1201, 901>>}

Paths ==
    {<<"photos", "/", "img", ".", "jpg">>,
     <<"img", ".", "png">>,
     <<"photos", "/", "a", ".", "b", ".", "dat">>,
     <<"photos", "/", ".", "raw">>}

Anchors == {"top-left", "top-right", "bottom-left", "bottom-right", "center"}

\* The states of the input file: missing, not an image, or an image.
Files(exifs, mtimes) ==
    {[exists |-> FALSE, kind |-> "none", exif |-> NoExif, mtime |-> 0, size |-> <<0, 0>>]}
    \cup {[exists |-> TRUE, kind |-> "garbage", exif |-> NoExif, mtime |-> m,
           size |-> <<0, 0>>] : m \in mtimes}
    \cup {[exists |-> TRUE, kind |-> "image", exif |-> e, mtime |-> m, size |-> sz] :
            e \in exifs, m \in mtimes, sz \in ImageSizes}

DefaultArgs(path) ==
    [image_path |-> path, font_size |-> 40, font_color |-> <<255, 255, 255>>,
     position |-> "bottom-right", opacity |-> 128]

NoPlace == [x |-> 0, y |-> 0, text_width |-> 0, text_height |-> 0, done |-> FALSE]

\* The locals of a run before it starts.
Locals ==
    /\ exif_data = NoExif
    /\ date_text = NoneVal
    /\ mtime_status = "not_tried"
    /\ watermark_text = NoneVal
    /\ output_path = <<>>
    /\ xy = NoPlace
    /\ success = FALSE
    /\ exit_status = -1
    /\ io = <<>>

\* ------------------------------------------------------------------------
\* Initial states
\* ------------------------------------------------------------------------

Envs == [writable : BOOLEAN, render_ok : BOOLEAN]

\* The program started from the command line.
Init ==
    /\ entry = "main"
    /\ \E path \in Paths, fs \in {0, 40}, fc \in {<<255, 255, 255>>, <<0, 256, 0>>},
          pos \in Anchors, op \in {-1, 128, 300} :
          /\ args = [image_path |-> path, font_size |-> fs, font_color |-> fc,
                     position |-> pos, opacity |-> op]
          /\ dirs \in {{}, {WatermarkDir(path)}}
    /\ file \in Files(MainExifs, MainMtimes)
    /\ env \in Envs
    /\ files = {}
    /\ old_dirs = dirs
    /\ run = 1
    /\ pc = "main"
    /\ results = <<>>
    /\ Locals

\* create_watermark_text called on its own, on any file.
ResolverInit ==
    /\ entry = "create_watermark_text"
    /\ args = DefaultArgs(<<"photos", "/", "img", ".", "jpg">>)
    /\ file \in Files(AllExifs, Mtimes)
    /\ env = [writable |-> TRUE, render_ok |-> TRUE]
    /\ dirs = {}
    /\ files = {}
    /\ old_dirs = dirs
    /\ run = 1
    /\ pc = "get_exif_data"
    /\ results = <<>>
    /\ Locals

\* add_watermark called on its own, with any position value.
WatermarkInit ==
    /\ entry = "add_watermark"
    /\ \E path \in Paths, pos \in Anchors \cup {"middle", ""} :
          /\ args = [DefaultArgs(path) EXCEPT !.position = pos]
          /\ dirs \in {{}, {WatermarkDir(path)}}
          /\ output_path = OutputPath(path)
    /\ file \in Files({NoExif}, {19787})
    /\ env \in Envs
    /\ files = {}
    /\ old_dirs = dirs
    /\ run = 1
    /\ pc = "open_image"
    /\ results = <<>>
    /\ exif_data = NoExif
    /\ date_text = NoneVal
    /\ mtime_status = "not_tried"
    /\ watermark_text \in {UnknownDate, StrftimeYmd(FromTimestamp(19787))}
    /\ xy = NoPlace
    /\ success = FALSE
    /\ exit_status = -1
    /\ io = <<>>

\* ------------------------------------------------------------------------
\* main
\* ------------------------------------------------------------------------

\* main, lines 284-303: the three checks, each ending main by a plain return.
main_validate ==
    /\ pc = "main"
    /\ IF FontSizeOK(args.font_size) /\ FontColorOK(args.font_color)
          /\ OpacityOK(args.opacity)
       THEN pc' = "process_image" /\ exit_status' = exit_status
       ELSE pc' = "exit" /\ exit_status' = 0
    /\ UNCHANGED <<entry, args, file, env, dirs, files, old_dirs, run,
                   exif_data, date_text, mtime_status, watermark_text,
                   output_path, xy, success, io, results>>

\* Mutant of main_report: a failure is reported but sys.exit(1) is not called.
main_report_no_exit ==
    /\ pc = "main_report"
    /\ exit_status' = 0
    /\ results' = Append(results, success)
    /\ pc' = "exit"
    /\ UNCHANGED <<entry, args, file, env, dirs, files, old_dirs, run,
                   exif_data, date_text, mtime_status, watermark_text,
                   output_path, xy, success, io>>

\* main, lines 305-309.
main_report ==
    /\ pc = "main_report"
    /\ exit_status' = IF success THEN 0 ELSE 1
    /\ results' = Append(results, success)
    /\ pc' = "exit"
    /\ UNCHANGED <<entry, args, file, env, dirs, files, old_dirs, run,
                   exif_data, date_text, mtime_status, watermark_text,
                   output_path, xy, success, io>>

\* The program is started again on the same arguments and file system.
Rerun ==
    /\ pc = "exit"
    /\ run < MaxRuns
    /\ run' = run + 1
    /\ pc' = "main"
    /\ exif_data' = NoExif
    /\ date_text' = NoneVal
    /\ mtime_status' = "not_tried"
    /\ watermark_text' = NoneVal
    /\ output_path' = <<>>
    /\ xy' = NoPlace
    /\ success' = FALSE
    /\ exit_status' = -1
    /\ io' = <<>>
    /\ UNCHANGED <<entry, args, file, env, dirs, files, old_dirs, results>>

\* ------------------------------------------------------------------------
\* process_image
\* ------------------------------------------------------------------------

\* Lines 243-246: the existence check.
process_image_check ==
    /\ pc = "process_image"
    /\ io' = Append(io, "exists")
    /\ IF file.exists
       THEN pc' = "get_exif_data" /\ success' = success
       ELSE pc' = "main_report" /\ success' = FALSE
    /\ UNCHANGED <<entry, args, file, env, dirs, files, old_dirs, run,
                   exif_data, date_text, mtime_status, watermark_text,
                   output_path, xy, exit_status, results>>

\* Lines 252-261: the output path.
process_image_paths ==
    /\ pc = "resolve_path"
    /\ output_path' = OutputPath(args.image_path)
    /\ pc' = "open_image"
    /\ UNCHANGED <<entry, args, file, env, dirs, files, old_dirs, run,
                   exif_data, date_text, mtime_status, watermark_text, xy,
                   success, exit_status, io, results>>

\* Lines 267-269: an exception of add_watermark becomes False.
process_image_catch ==
    /\ pc = "process_image_except"
    /\ success' = FALSE
    /\ pc' = "main_report"
    /\ UNCHANGED <<entry, args, file, env, dirs, files, old_dirs, run,
                   exif_data, date_text, mtime_status, watermark_text,
                   output_path, xy, exit_status, io, results>>

\* ------------------------------------------------------------------------
\* create_watermark_text
\* ------------------------------------------------------------------------

\* Where create_watermark_text returns to.
AfterText == IF entry = "create_watermark_text" THEN "returned" ELSE "resolve_path"

\* The operations get_exif_data performs on the file f.
ExifIo(f) ==
    IF ~f.exists THEN <<"exists">>
    ELSE IF f.kind # "image" THEN <<"exists", "open">>
    ELSE <<"exists", "open", "getexif">>

\* Line 96: exif_data = get_exif_data(image_path).
cwt_get_exif ==
    /\ pc = "get_exif_data"
    /\ exif_data' = get_exif_data(file)
    /\ io' = io \o ExifIo(file)
    /\ pc' = "extract_datetime"
    /\ UNCHANGED <<entry, args, file, env, dirs, files, old_dirs, run,
                   date_text, mtime_status, watermark_text, output_path, xy,
                   success, exit_status, results>>

\* Lines 97-100: the date of the EXIF data, returned when there is one.  The
\* lines stand in no try block: an exception of extract_datetime would leave
\* create_watermark_text.
cwt_extract ==
    /\ pc = "extract_datetime"
    /\ date_text' = extract_datetime(exif_data)
    /\ IF date_text' = RaisedVal
       THEN watermark_text' = watermark_text /\ pc' = "raised"
       ELSE IF date_text' # NoneVal
       THEN watermark_text' = date_text' /\ pc' = AfterText
       ELSE watermark_text' = watermark_text /\ pc' = "file_mtime"
    /\ UNCHANGED <<entry, args, file, env, dirs, files, old_dirs, run,
                   exif_data, mtime_status, output_path, xy, success,
                   exit_status, io, results>>

\* Mutant of MtimeText: the modification time tier is left out.
MtimeText_skipped(f) ==
    [status |-> IF f.exists THEN "raised" ELSE "missing", text |-> UnknownDate]

\* Lines 103-112 on the file f: the modification date, or the constant when
\* the file is missing or the conversion raises.
MtimeText(f) ==
    IF ~f.exists THEN [status |-> "missing", text |-> UnknownDate]
    ELSE LET mdate == FromTimestamp(f.mtime)
         IN  IF mdate.ok THEN [status |-> "ok", text |-> StrftimeYmd(mdate)]
             ELSE [status |-> "raised", text |-> UnknownDate]

cwt_file_mtime ==
    /\ pc = "file_mtime"
    /\ mtime_status' = MtimeText(file).status
    /\ watermark_text' = MtimeText(file).text
    /\ io' = io \o (IF file.exists THEN <<"exists", "getmtime">> ELSE <<"exists">>)
    /\ pc' = AfterText
    /\ UNCHANGED <<entry, args, file, env, dirs, files, old_dirs, run,
                   exif_data, date_text, output_path, xy, success,
                   exit_status, results>>

\* ------------------------------------------------------------------------
\* add_watermark
\* ------------------------------------------------------------------------

\* Mutant of aw_open: a file that cannot be decoded does not stop add_watermark.
aw_open_unchecked ==
    /\ pc = "open_image"
    /\ io' = Append(io, "open")
    /\ pc' = "place"
    /\ UNCHANGED <<entry, args, file, env, dirs, files, old_dirs, run,
                   exif_data, date_text, mtime_status, watermark_text,
                   output_path, xy, success, exit_status, results>>

\* Lines 167-174: Image.open and convert raise on a missing or undecodable file.
aw_open ==
    /\ pc = "open_image"
    /\ io' = Append(io, "open")
    /\ pc' = IF file.exists /\ file.kind = "image" THEN "place"
             ELSE "add_watermark_except"
    /\ UNCHANGED <<entry, args, file, env, dirs, files, old_dirs, run,
                   exif_data, date_text, mtime_status, watermark_text,
                   output_path, xy, success, exit_status, results>>

\* Lines 176-203: the text is measured and placed.
aw_place ==
    /\ pc = "place"
    /\ \E ts \in TextSizes :
          LET at == Position(args.position, file.size[1], file.size[2], ts[1], ts[2])
          IN  xy' = [x |-> at[1], y |-> at[2], text_width |-> ts[1],
                     text_height |-> ts[2], done |-> TRUE]
    /\ pc' = "composite"
    /\ UNCHANGED <<entry, args, file, env, dirs, files, old_dirs, run,
                   exif_data, date_text, mtime_status, watermark_text,
                   output_path, success, exit_status, io, results>>

\* Lines 205-216: drawing and compositing, which may raise.
aw_composite ==
    /\ pc = "composite"
    /\ pc' = IF env.render_ok THEN "ensure_dir" ELSE "add_watermark_except"
    /\ UNCHANGED <<entry, args, file, env, dirs, files, old_dirs, run,
                   exif_data, date_text, mtime_status, watermark_text,
                   output_path, xy, success, exit_status, io, results>>

\* Mutant of aw_ensure_dir: makedirs is called without the existence check, and
\* raises when the directory is already there.
aw_ensure_dir_unconditional ==
    /\ pc = "ensure_dir"
    /\ io' = Append(io, "makedirs")
    /\ IF env.writable /\ Dirname(output_path) \notin dirs
       THEN dirs' = dirs \cup {Dirname(output_path)} /\ pc' = "save"
       ELSE dirs' = dirs /\ pc' = "add_watermark_except"
    /\ UNCHANGED <<entry, args, file, env, files, old_dirs, run, exif_data,
                   date_text, mtime_status, watermark_text, output_path, xy,
                   success, exit_status, results>>

\* Lines 218-221: the output directory is created when it does not exist.
aw_ensure_dir ==
    /\ pc = "ensure_dir"
    /\ LET output_dir == Dirname(output_path)
       IN  IF output_dir \in dirs
           THEN /\ io' = Append(io, "exists")
                /\ dirs' = dirs
                /\ pc' = "save"
           ELSE /\ io' = io \o <<"exists", "makedirs">>
                /\ IF env.writable
                   THEN dirs' = dirs \cup {output_dir} /\ pc' = "save"
                   ELSE dirs' = dirs /\ pc' = "add_watermark_except"
    /\ UNCHANGED <<entry, args, file, env, files, old_dirs, run, exif_data,
                   date_text, mtime_status, watermark_text, output_path, xy,
                   success, exit_status, results>>

\* Lines 223-225, and process_image's return True at line 266.
aw_save ==
    /\ pc = "save"
    /\ io' = Append(io, "save")
    /\ IF env.writable /\ SaveSupported(output_path)
       THEN /\ files' = files \cup {output_path}
            /\ IF entry = "add_watermark"
               THEN pc' = "returned" /\ success' = success
               ELSE pc' = "main_report" /\ success' = TRUE
       ELSE /\ files' = files
            /\ pc' = "add_watermark_except"
            /\ success' = success
    /\ UNCHANGED <<entry, args, file, env, dirs, old_dirs, run, exif_data,
                   date_text, mtime_status, watermark_text, output_path, xy,
                   exit_status, results>>

\* Lines 227-229: the exception is reported and raised again.
aw_reraise ==
    /\ pc = "add_watermark_except"
    /\ pc' = IF entry = "add_watermark" THEN "raised" ELSE "process_image_except"
    /\ UNCHANGED <<entry, args, file, env, dirs, files, old_dirs, run,
                   exif_data, date_text, mtime_status, watermark_text,
                   output_path, xy, success, exit_status, io, results>>

\* ------------------------------------------------------------------------
\* Specifications
\* ------------------------------------------------------------------------

Next ==
    \/ main_validate
    \/ process_image_check
    \/ cwt_get_exif
    \/ cwt_extract
    \/ cwt_file_mtime
    \/ process_image_paths
    \/ aw_open
    \/ aw_place
    \/ aw_composite
    \/ aw_ensure_dir
    \/ aw_save
    \/ aw_reraise
    \/ process_image_catch
    \/ main_report
    \/ Rerun

Spec == Init /\ [][Next]_vars

ResolverNext == cwt_get_exif \/ cwt_extract \/ cwt_file_mtime

ResolverSpec == ResolverInit /\ [][ResolverNext]_vars

WatermarkNext ==
    aw_open \/ aw_place \/ aw_composite \/ aw_ensure_dir \/ aw_save \/ aw_reraise

WatermarkSpec == WatermarkInit /\ [][WatermarkNext]_vars

\* ------------------------------------------------------------------------
\* Properties of the date resolver (ResolverSpec)
\* ------------------------------------------------------------------------

Elems(seq) == {seq[i] : i \in 1..Len(seq)}

\* "YYYY-MM-DD" written out from three numbers.
Ymd(y, m, d) == NumStr(y, 4) \o <<"-">> \o NumStr(m, 2) \o <<"-">> \o NumStr(d, 2)

IsYmd(s) ==
    /\ Len(s) = 10
    /\ \A i \in {1, 2, 3, 4, 6, 7, 9, 10} : IsDigit(s[i])
    /\ s[5] = "-"
    /\ s[8] = "-"

Parses(val) ==
    val.t = "str" /\ \E i \in 1..Len(formats) : Strptime(val.v, formats[i]).ok

\* The date part of a value that parses, as YYYY-MM-DD: for a value in the
\* fixed-width form its characters with the separators replaced, otherwise
\* its year, month and day written out.
DatePart(val) ==
    IF Len(val.v) = 19 /\ \A i \in {1, 2, 3, 4, 6, 7, 9, 10} : IsDigit(val.v[i])
    THEN <<val.v[1], val.v[2], val.v[3], val.v[4], "-", val.v[6], val.v[7], "-",
           val.v[9], val.v[10]>>
    ELSE LET i  == CHOOSE i \in 1..Len(formats) : Strptime(val.v, formats[i]).ok
             dt == Strptime(val.v, formats[i])
         IN  Ymd(dt.year, dt.month, dt.day)

HasOriginal ==
    /\ ~exif_data.none
    /\ "DateTimeOriginal" \in DOMAIN exif_data.tags
    /\ Parses(exif_data.tags["DateTimeOriginal"])

\* C1: when the record get_exif_data returned holds a DateTimeOriginal that
\* parses under one of the two formats, create_watermark_text returns the
\* date part of that value as YYYY-MM-DD, whatever the file's modification
\* time and the other fields are.
C1_OriginalDateWins ==
    (pc = "returned" /\ HasOriginal)
        => watermark_text = DatePart(exif_data.tags["DateTimeOriginal"])

\* A slash-separated DateTimeOriginal wins over a parseable DateTime and over
\* a modification time that cannot even be converted.
C1_Witness ==
    /\ pc = "returned"
    /\ HasOriginal
    /\ exif_data.tags["DateTimeOriginal"] = Stamp(2020, 2, 29, "/")
    /\ "DateTime" \in DOMAIN exif_data.tags
    /\ Parses(exif_data.tags["DateTime"])
    /\ file.mtime = 2932897
    /\ watermark_text = <<"2", "0", "2", "0", "-", "0", "2", "-", "2", "9">>

\* The calendar date of the modification times of the model.
MtimeDate(m) ==
    CASE m = 19787 -> Ymd(2024, 3, 5)
      [] m = 11016 -> Ymd(2000, 2, 29)
      [] m = -1 -> Ymd(1969, 12, 31)
      [] m = 2932896 -> Ymd(9999, 12, 31)
      [] OTHER -> NoneVal

\* Whether the modification time m is a day of the years 1..9999.
MtimeInRange(m) == -719162 <= m /\ m <= 2932896

\* get_exif_data returned None, or a record none of whose capture-time fields
\* holds a value that parses.
NoCaptureTime ==
    \/ exif_data.none
    \/ \A k \in {"DateTimeOriginal", "DateTime", "DateTimeDigitized"} :
          k \in DOMAIN exif_data.tags => ~Parses(exif_data.tags[k])

\* C2 as stated: for every existing file without a usable capture time,
\* create_watermark_text returns the file's modification date as YYYY-MM-DD
\* and never "Unknown Date".
C2_Original ==
    (pc = "returned" /\ file.exists /\ NoCaptureTime)
        => /\ watermark_text # UnknownDate
           /\ IsYmd(watermark_text)

\* C2 (amended): for every existing file without a usable capture time whose
\* modification time converts to a date, create_watermark_text returns that
\* date as YYYY-MM-DD and not "Unknown Date"; when the conversion raises, it
\* returns "Unknown Date".
C2_MtimeFallback ==
    (pc = "returned" /\ file.exists /\ NoCaptureTime)
        => IF MtimeInRange(file.mtime)
           THEN /\ watermark_text = MtimeDate(file.mtime)
                /\ watermark_text # UnknownDate
           ELSE watermark_text = UnknownDate

\* An image whose only capture time is unparseable gets the leap day its
\* file was modified on.
C2_Witness ==
    /\ pc = "returned"
    /\ file.exists
    /\ ~exif_data.none
    /\ "DateTimeOriginal" \in DOMAIN exif_data.tags
    /\ NoCaptureTime
    /\ file.mtime = 11016
    /\ watermark_text = <<"2", "0", "0", "0", "-", "0", "2", "-", "2", "9">>

\* C3: create_watermark_text returns the literal "Unknown Date" if and only
\* if no date was obtained from the metadata record and the modification
\* time could not be read (the file does not exist, or reading it raised).
C3_UnknownDateIff ==
    pc = "returned"
        => ((watermark_text = <<"U", "n", "k", "n", "o", "w", "n", " ", "D", "a", "t", "e">>)
            <=> (date_text = NoneVal
                 /\ (~file.exists \/ ~MtimeInRange(file.mtime))))

\* A missing file gives the constant.
C3_Witness ==
    /\ pc = "returned"
    /\ ~file.exists
    /\ mtime_status = "missing"
    /\ watermark_text = <<"U", "n", "k", "n", "o", "w", "n", " ", "D", "a", "t", "e">>

\* Whether the key k is present in the tags with a non-empty value.
NonEmptyAt(tags, k) ==
    /\ k \in DOMAIN tags
    /\ tags[k].v # <<>>
    /\ ~(tags[k].t = "int" /\ tags[k].v = <<"0">>)

\* The value of the highest-priority field that is present and non-empty.
FirstNonEmpty(tags) ==
    IF NonEmptyAt(tags, "DateTimeOriginal") THEN tags["DateTimeOriginal"]
    ELSE IF NonEmptyAt(tags, "DateTime") THEN tags["DateTime"]
    ELSE IF NonEmptyAt(tags, "DateTimeDigitized") THEN tags["DateTimeDigitized"]
    ELSE Absent

\* C9: the date comes from the highest-priority field among DateTimeOriginal,
\* DateTime, DateTimeDigitized that is present and non-empty, and from that
\* value only: when it matches neither format the result is None and the
\* resolver goes on to the modification time, even when a lower-priority
\* field holds a value that parses.
C9_FirstNonEmptyOnly ==
    (pc \in {"file_mtime", "returned"} /\ ~exif_data.none)
        => LET first == FirstNonEmpty(exif_data.tags)
           IN  /\ Parses(first) => date_text = DatePart(first)
               /\ ~Parses(first) => /\ date_text = NoneVal
                                    /\ pc = "returned" => mtime_status # "not_tried"

\* An unparseable DateTimeOriginal hides a parseable DateTime.
C9_Witness ==
    /\ pc = "returned"
    /\ ~exif_data.none
    /\ NonEmptyAt(exif_data.tags, "DateTimeOriginal")
    /\ exif_data.tags["DateTimeOriginal"] = Stamp(2023, 2, 29, ":")
    /\ NonEmptyAt(exif_data.tags, "DateTime")
    /\ Parses(exif_data.tags["DateTime"])
    /\ date_text = NoneVal
    /\ mtime_status = "ok"

\* C10: no exception leaves create_watermark_text: whatever the input, the
\* run is at one of its statements or at its return, never at an exception;
\* the tiers are tried in the order metadata, modification time, constant,
\* and what it returns is a YYYY-MM-DD string or "Unknown Date".
C10_ResolverTotal ==
    /\ pc \in {"get_exif_data", "extract_datetime", "file_mtime", "returned"}
    /\ pc = "returned" =>
          /\ IsYmd(watermark_text) \/ watermark_text = UnknownDate
          /\ date_text # NoneVal =>
                watermark_text = date_text /\ mtime_status = "not_tried"
          /\ date_text = NoneVal =>
                /\ mtime_status \in {"ok", "missing", "raised"}
                /\ mtime_status = "ok" => IsYmd(watermark_text)
                /\ mtime_status # "ok" => watermark_text = UnknownDate

\* A field that is no string (the TypeError case) degrades to the
\* modification time.
C10_Witness ==
    /\ pc = "returned"
    /\ ~exif_data.none
    /\ NonEmptyAt(exif_data.tags, "DateTimeOriginal")
    /\ exif_data.tags["DateTimeOriginal"].t = "bytes"
    /\ date_text = NoneVal
    /\ mtime_status = "ok"
    /\ IsYmd(watermark_text)

\* ------------------------------------------------------------------------
\* Properties of the geometry step (WatermarkSpec)
\* ------------------------------------------------------------------------

\* Whether q is the floor of n / 2.
IsHalfFloor(q, n) == 2 * q <= n /\ n < 2 * q + 2

\* C4: the place of the text is a function of the image size, the text size
\* and the anchor, with margin 10: top-left (10, 10); top-right
\* (width - text_width - 10, 10); bottom-left (10, height - text_height - 10);
\* center the floors of the halves of the differences; bottom-right and every
\* other value (width - text_width - 10, height - text_height - 10).  An image
\* of 1000x800 and a text of 100x30 give (890, 760) at bottom-right and
\* (450, 385) at center; a text larger than the image gives negative integers.
C4_Geometry ==
    xy.done =>
        LET w  == file.size[1]
            h  == file.size[2]
            tw == xy.text_width
            th == xy.text_height
            a  == args.position
        IN  /\ xy.x \in Int /\ xy.y \in Int
            /\ a = "top-left" => xy.x = 10 /\ xy.y = 10
            /\ a = "top-right" => xy.x = w - tw - 10 /\ xy.y = 10
            /\ a = "bottom-left" => xy.x = 10 /\ xy.y = h - th - 10
            /\ a = "center" => IsHalfFloor(xy.x, w - tw) /\ IsHalfFloor(xy.y, h - th)
            /\ a \notin {"top-left", "top-right", "bottom-left", "center"} =>
                  xy.x = w - tw - 10 /\ xy.y = h - th - 10
            /\ (w = 1000 /\ h = 800 /\ tw = 100 /\ th = 30) =>
                  /\ a = "bottom-right" => xy.x = 890 /\ xy.y = 760
                  /\ a = "center" => xy.x = 450 /\ xy.y = 385

\* An unrecognized anchor with a text larger than the image: the bottom-right
\* rule, with negative coordinates.
C4_Witness ==
    /\ xy.done
    /\ args.position = "middle"
    /\ file.size = <<1000, 800>>
    /\ xy.text_width = 1201
    /\ xy.x = -211
    /\ xy.y = -111

\* ------------------------------------------------------------------------
\* Properties of the whole program (Spec)
\* ------------------------------------------------------------------------

\* One of main's three checks fails.
ArgsInvalid ==
    \/ args.font_size <= 0
    \/ \E i \in 1..3 : args.font_color[i] < 0 \/ args.font_color[i] > 255
    \/ args.opacity < 0
    \/ args.opacity > 255

\* C5: when --opacity or a --font-color channel is outside 0..255 or
\* --font-size is not positive, main ends before process_image is called: no
\* existence check, image open, metadata read, directory creation or save
\* happens in that run.
C5_RejectedBeforeIo ==
    ArgsInvalid =>
        /\ io = <<>>
        /\ pc \in {"main", "exit"}
        /\ dirs = old_dirs
        /\ files = {}
        /\ results = <<>>

\* Opacity 300 with everything else valid: both runs end without any
\* operation.
C5_Witness ==
    /\ pc = "exit"
    /\ run = 2
    /\ args.opacity = 300
    /\ args.font_size = 40
    /\ args.font_color = <<255, 255, 255>>
    /\ file.exists
    /\ io = <<>>

\* C6: when the input path does not exist, or exists but cannot be decoded as
\* an image, process_image returns False, no directory and no output file is
\* created, and main reports the failure.
C6_NoDirectoryOnBadInput ==
    (~ArgsInvalid /\ (~file.exists \/ file.kind # "image")) =>
        /\ dirs = old_dirs
        /\ files = {}
        /\ "makedirs" \notin Elems(io)
        /\ "save" \notin Elems(io)
        /\ pc = "main_report" => success = FALSE
        /\ pc = "exit" => results[run] = FALSE /\ exit_status = 1

\* A file that is no image, in a directory without a _watermark directory.
C6_Witness ==
    /\ pc = "exit"
    /\ ~ArgsInvalid
    /\ file.exists
    /\ file.kind = "garbage"
    /\ old_dirs = {}
    /\ dirs = {}
    /\ exit_status = 1

\* <source_directory>/<filename_without_extension>_watermark of the paths of
\* the model.
DocumentedDir(path) ==
    CASE path = <<"photos", "/", "img", ".", "jpg">> ->
            <<"photos", "/", "img", "_watermark">>
      [] path = <<"img", ".", "png">> -> <<"img", "_watermark">>
      [] path = <<"photos", "/", "a", ".", "b", ".", "dat">> ->
            <<"photos", "/", "a", ".", "b", "_watermark">>
      [] path = <<"photos", "/", ".", "raw">> ->
            <<"photos", "/", ".", "raw", "_watermark">>

\* <that directory>/<original_filename>.
DocumentedFile(path) ==
    CASE path = <<"photos", "/", "img", ".", "jpg">> ->
            <<"photos", "/", "img", "_watermark", "/", "img", ".", "jpg">>
      [] path = <<"img", ".", "png">> -> <<"img", "_watermark", "/", "img", ".", "png">>
      [] path = <<"photos", "/", "a", ".", "b", ".", "dat">> ->
            <<"photos", "/", "a", ".", "b", "_watermark", "/", "a", ".", "b", ".", "dat">>
      [] path = <<"photos", "/", ".", "raw">> ->
            <<"photos", "/", ".", "raw", "_watermark", "/", ".", "raw">>

\* C7 as stated, for a file system that can be written and a text that can
\* be drawn: the first run on a decodable image with no _watermark directory
\* creates exactly one directory and exactly one file in it.
C7_Original ==
    (/\ pc = "exit"
     /\ run = 1
     /\ ~ArgsInvalid
     /\ file.exists
     /\ file.kind = "image"
     /\ old_dirs = {}
     /\ env.writable
     /\ env.render_ok)
        => /\ dirs = {DocumentedDir(args.image_path)}
           /\ files = {DocumentedFile(args.image_path)}

\* C7 (amended): a run on a decodable image with no _watermark directory in
\* which process_image returns True creates exactly the directory
\* <source_directory>/<filename_without_extension>_watermark and exactly the
\* file <original_filename> in it; a run in which it returns False creates no
\* file and at most that directory.  Every run after a run that returned True
\* returns True as well, calls makedirs no more and leaves exactly that
\* directory and that file.
C7_OneDirectoryOneFile ==
    (pc = "exit" /\ ~ArgsInvalid /\ file.exists /\ file.kind = "image"
     /\ old_dirs = {})
        => /\ results[1] =>
                 /\ \A i \in 1..run : results[i]
                 /\ dirs = {DocumentedDir(args.image_path)}
                 /\ files = {DocumentedFile(args.image_path)}
                 /\ ("makedirs" \in Elems(io)) <=> (run = 1)
           /\ ~results[1] =>
                 /\ files = {}
                 /\ dirs \subseteq {DocumentedDir(args.image_path)}

\* The second run after a first run that created the directory and the file.
C7_Witness ==
    /\ pc = "exit"
    /\ run = 2
    /\ old_dirs = {}
    /\ results = <<TRUE, TRUE>>
    /\ args.image_path = <<"photos", "/", "img", ".", "jpg">>
    /\ dirs = {<<"photos", "/", "img", "_watermark">>}
    /\ files = {<<"photos", "/", "img", "_watermark", "/", "img", ".", "jpg">>}
    /\ io[Len(io)] = "save"

\* Whether some step of process_image fails: the file is missing or cannot
\* be decoded, drawing raises, the file system cannot be written, or the
\* file name has an extension no encoder is registered for.
ProcessingFails ==
    \/ ~file.exists
    \/ file.kind # "image"
    \/ ~env.render_ok
    \/ ~env.writable
    \/ args.image_path \in {<<"photos", "/", "a", ".", "b", ".", "dat">>,
                            <<"photos", "/", ".", "raw">>}

\* C8: a missing input file, and any exception during decode, compositing,
\* directory creation or save, make process_image return False; a run in
\* which it returns False ends with status 1 and a run in which it returns
\* True ends with status 0.
C8_ExitStatus ==
    /\ pc = "process_image_except" => ProcessingFails /\ file.exists
    /\ (pc = "exit" /\ ~ArgsInvalid) =>
          /\ results[run] = ~ProcessingFails
          /\ exit_status = IF results[run] THEN 0 ELSE 1

\* A save error on a decodable image ends the run with status 1.
C8_Witness ==
    /\ pc = "exit"
    /\ ~ArgsInvalid
    /\ file.exists
    /\ file.kind = "image"
    /\ env.render_ok
    /\ env.writable
    /\ io[Len(io)] = "save"
    /\ results[run] = FALSE
    /\ exit_status = 1

====
